---------------------------- MODULE Spec2Model ----------------------------
(***************************************************************************)
(* A model of the media relay (backend/downloader.ts, backend/index.ts).   *)
(*                                                                         *)
(* JavaScript strings whose characters the code inspects (URLs, titles,    *)
(* file names, platform names) are sequences of UTF-16 code units.         *)
(* Strings that the code only compares as a whole or passes through        *)
(* (quality tiers, format expressions, header values, log tags) are TLA+   *)
(* strings.                                                                *)
(***************************************************************************)
EXTENDS Integers, Sequences, FiniteSets, TLC

(***************************************************************************)
(* Character classes of the regular expressions (no u flag: code units).   *)
(***************************************************************************)
Digit == 48..57

WordChar == (48..57) \cup (65..90) \cup {95} \cup (97..122)

LineTerminator == {10, 13, 8232, 8233}

WhiteSpace == {9, 10, 11, 12, 13, 32, 160, 5760, 8232, 8233, 8239, 8287, 12288, 65279}
              \cup (8192..8202)

(***************************************************************************)
(* Regular expressions as syntax trees.                                    *)
(***************************************************************************)
Lit(str) == [t |-> "lit", s |-> str]

Cls(set) == [t |-> "cls", c |-> set]

AnyChar == [t |-> "any"]

Opt(re) == [t |-> "opt", r |-> re]

Plus(re) == [t |-> "plus", r |-> re]

Alt(res) == [t |-> "alt", rs |-> res]

Cat(res) == [t |-> "cat", rs |-> res]

RECURSIVE Ends(_, _, _)
RECURSIVE CatEnds(_, _, _, _)
RECURSIVE PlusEnds(_, _, _)

\* The positions at which a match of re can end when it starts at one of the
\* positions of P (a position is the index of the next code unit to consume).
Ends(re, s, P) ==
    CASE re.t = "lit" ->
           {p + Len(re.s) : p \in {q \in P : /\ q + Len(re.s) - 1 <= Len(s)
                                             /\ SubSeq(s, q, q + Len(re.s) - 1) = re.s}}
      [] re.t = "cls" ->
           {p + 1 : p \in {q \in P : q <= Len(s) /\ s[q] \in re.c}}
      [] re.t = "any" ->
           {p + 1 : p \in {q \in P : q <= Len(s) /\ s[q] \notin LineTerminator}}
      [] re.t = "opt" -> P \cup Ends(re.r, s, P)
      [] re.t = "plus" -> PlusEnds(re.r, s, Ends(re.r, s, P))
      [] re.t = "alt" -> UNION {Ends(re.rs[i], s, P) : i \in 1..Len(re.rs)}
      [] re.t = "cat" -> CatEnds(re.rs, 1, s, P)

CatEnds(rs, i, s, P) ==
    IF i > Len(rs) \/ P = {} THEN P
    ELSE CatEnds(rs, i + 1, s, Ends(rs[i], s, P))

PlusEnds(re, s, P) ==
    LET Q == Ends(re, s, P)
    IN  IF Q \subseteq P THEN P ELSE PlusEnds(re, s, P \cup Q)

\* RegExp.prototype.test for a pattern anchored with ^ and without the g flag.
Test(re, s) == Ends(re, s, {1}) # {}

(***************************************************************************)
(* SUPPORTED_PLATFORMS.  Every pattern begins ^https?:\/\/(www\.)?         *)
(***************************************************************************)
SchemeHost ==
    <<Lit(<<104, 116, 116, 112>>), Opt(Lit(<<115>>)), Lit(<<58, 47, 47>>),
      Opt(Lit(<<119, 119, 119, 46>>))>>

\* /^https?:\/\/(www\.)?(x\.com|twitter\.com)\/.+\/status\/\d+/
PatTwitter ==
    Cat(SchemeHost \o
        <<Alt(<<Lit(<<120, 46, 99, 111, 109>>),
                Lit(<<116, 119, 105, 116, 116, 101, 114, 46, 99, 111, 109>>)>>),
          Lit(<<47>>), Plus(AnyChar),
          Lit(<<47, 115, 116, 97, 116, 117, 115, 47>>), Plus(Cls(Digit))>>)

\* /^https?:\/\/(www\.)?instagram\.com\/(p|reel|tv)\/[\w-]+/
PatInstagram ==
    Cat(SchemeHost \o
        <<Lit(<<105, 110, 115, 116, 97, 103, 114, 97, 109, 46, 99, 111, 109, 47>>),
          Alt(<<Lit(<<112>>), Lit(<<114, 101, 101, 108>>), Lit(<<116, 118>>)>>),
          Lit(<<47>>), Plus(Cls(WordChar \cup {45}))>>)

\* /^https?:\/\/(www\.)?(youtube\.com\/watch\?v=|youtu\.be\/)[\w-]+/
PatYouTube ==
    Cat(SchemeHost \o
        <<Alt(<<Lit(<<121, 111, 117, 116, 117, 98, 101, 46, 99, 111, 109, 47,
                      119, 97, 116, 99, 104, 63, 118, 61>>),
                Lit(<<121, 111, 117, 116, 117, 46, 98, 101, 47>>)>>),
          Plus(Cls(WordChar \cup {45}))>>)

\* /^https?:\/\/(www\.)?reddit\.com\/r\/[\w]+\/comments\/[\w]+/
PatReddit ==
    Cat(SchemeHost \o
        <<Lit(<<114, 101, 100, 100, 105, 116, 46, 99, 111, 109, 47, 114, 47>>),
          Plus(Cls(WordChar)),
          Lit(<<47, 99, 111, 109, 109, 101, 110, 116, 115, 47>>),
          Plus(Cls(WordChar))>>)

\* /^https?:\/\/(www\.)?(tiktok\.com\/@[\w.]+\/video\/\d+|vm\.tiktok\.com\/[\w]+)/
PatTikTok ==
    Cat(SchemeHost \o
        <<Alt(<<Cat(<<Lit(<<116, 105, 107, 116, 111, 107, 46, 99, 111, 109, 47, 64>>),
                      Plus(Cls(WordChar \cup {46})),
                      Lit(<<47, 118, 105, 100, 101, 111, 47>>), Plus(Cls(Digit))>>),
                Cat(<<Lit(<<118, 109, 46, 116, 105, 107, 116, 111, 107, 46, 99, 111,
                            109, 47>>),
                      Plus(Cls(WordChar))>>)>>)>>)

\* /^https?:\/\/(www\.)?(facebook\.com|fb\.watch)\/(watch\/?\?v=\d+|[\w.]+\/videos\/\d+)/
PatFacebook ==
    Cat(SchemeHost \o
        <<Alt(<<Lit(<<102, 97, 99, 101, 98, 111, 111, 107, 46, 99, 111, 109>>),
                Lit(<<102, 98, 46, 119, 97, 116, 99, 104>>)>>),
          Lit(<<47>>),
          Alt(<<Cat(<<Lit(<<119, 97, 116, 99, 104>>), Opt(Lit(<<47>>)),
                      Lit(<<63, 118, 61>>), Plus(Cls(Digit))>>),
                Cat(<<Plus(Cls(WordChar \cup {46})),
                      Lit(<<47, 118, 105, 100, 101, 111, 115, 47>>),
                      Plus(Cls(Digit))>>)>>)>>)

\* /^https?:\/\/(www\.)?vimeo\.com\/\d+/
PatVimeo ==
    Cat(SchemeHost \o
        <<Lit(<<118, 105, 109, 101, 111, 46, 99, 111, 109, 47>>), Plus(Cls(Digit))>>)

\* /^https?:\/\/(www\.)?(clips\.twitch\.tv\/[\w]+|twitch\.tv\/[\w]+\/clip\/[\w]+)/
PatTwitch ==
    Cat(SchemeHost \o
        <<Alt(<<Cat(<<Lit(<<99, 108, 105, 112, 115, 46, 116, 119, 105, 116, 99, 104,
                            46, 116, 118, 47>>),
                      Plus(Cls(WordChar))>>),
                Cat(<<Lit(<<116, 119, 105, 116, 99, 104, 46, 116, 118, 47>>),
                      Plus(Cls(WordChar)), Lit(<<47, 99, 108, 105, 112, 47>>),
                      Plus(Cls(WordChar))>>)>>)>>)

\* /^https?:\/\/(www\.)?pinterest\.(com|ca|co\.uk)\/pin\/\d+/
PatPinterest ==
    Cat(SchemeHost \o
        <<Lit(<<112, 105, 110, 116, 101, 114, 101, 115, 116, 46>>),
          Alt(<<Lit(<<99, 111, 109>>), Lit(<<99, 97>>), Lit(<<99, 111, 46, 117, 107>>)>>),
          Lit(<<47, 112, 105, 110, 47>>), Plus(Cls(Digit))>>)

\* /^https?:\/\/(www\.)?dailymotion\.com\/video\/[\w]+/
PatDailymotion ==
    Cat(SchemeHost \o
        <<Lit(<<100, 97, 105, 108, 121, 109, 111, 116, 105, 111, 110, 46, 99, 111,
                109, 47, 118, 105, 100, 101, 111, 47>>),
          Plus(Cls(WordChar))>>)

\* Platform names, as code units.
NameTwitter == <<84, 119, 105, 116, 116, 101, 114, 47, 88>>

NameInstagram == <<73, 110, 115, 116, 97, 103, 114, 97, 109>>

NameYouTube == <<89, 111, 117, 84, 117, 98, 101>>

NameReddit == <<82, 101, 100, 100, 105, 116>>

NameTikTok == <<84, 105, 107, 84, 111, 107>>

NameFacebook == <<70, 97, 99, 101, 98, 111, 111, 107>>

NameVimeo == <<86, 105, 109, 101, 111>>

NameTwitch == <<84, 119, 105, 116, 99, 104, 32, 67, 108, 105, 112, 115>>

NamePinterest == <<80, 105, 110, 116, 101, 114, 101, 115, 116>>

NameDailymotion == <<68, 97, 105, 108, 121, 109, 111, 116, 105, 111, 110>>

SUPPORTED_PLATFORMS ==
    << [name |-> NameTwitter,     pattern |-> PatTwitter,     icon |-> <<55357, 56358>>],
       [name |-> NameInstagram,   pattern |-> PatInstagram,   icon |-> <<55357, 56567>>],
       [name |-> NameYouTube,     pattern |-> PatYouTube,     icon |-> <<9654, 65039>>],
       [name |-> NameReddit,      pattern |-> PatReddit,      icon |-> <<55358, 56598>>],
       [name |-> NameTikTok,      pattern |-> PatTikTok,      icon |-> <<55356, 57269>>],
       [name |-> NameFacebook,    pattern |-> PatFacebook,    icon |-> <<55357, 56420>>],
       [name |-> NameVimeo,       pattern |-> PatVimeo,       icon |-> <<55356, 57260>>],
       [name |-> NameTwitch,      pattern |-> PatTwitch,      icon |-> <<55356, 57262>>],
       [name |-> NamePinterest,   pattern |-> PatPinterest,   icon |-> <<55357, 56524>>],
       [name |-> NameDailymotion, pattern |-> PatDailymotion, icon |-> <<55356, 57253>>] >>

\* SUPPORTED_PLATFORMS.map((p) => p.name)
PlatformNames == [i \in 1..Len(SUPPORTED_PLATFORMS) |-> SUPPORTED_PLATFORMS[i].name]

RECURSIVE FirstMatchStopsEarly(_, _)
\* A loop that stops one platform short of the end of the list.
FirstMatchStopsEarly(url, i) ==
    IF i >= Len(SUPPORTED_PLATFORMS) THEN 0
    ELSE IF Test(SUPPORTED_PLATFORMS[i].pattern, url) THEN i
    ELSE FirstMatchStopsEarly(url, i + 1)

RECURSIVE FirstMatch(_, _)
\* The for-of loop of isValidUrl from index i on: the index of the first
\* platform whose pattern matches, 0 when the loop runs off the end.
FirstMatch(url, i) ==
    IF i > Len(SUPPORTED_PLATFORMS) THEN 0
    ELSE IF Test(SUPPORTED_PLATFORMS[i].pattern, url) THEN i
    ELSE FirstMatch(url, i + 1)

isValidUrl(url) ==
    LET i == FirstMatch(url, 1)
    IN  IF i = 0 THEN [valid |-> FALSE]
        ELSE [valid |-> TRUE, platform |-> SUPPORTED_PLATFORMS[i].name,
              icon |-> SUPPORTED_PLATFORMS[i].icon]

(***************************************************************************)
(* Optional values: <<>> is null/undefined, <<x>> is the value x.          *)
(***************************************************************************)
None == <<>>

Some(x) == <<x>>

(***************************************************************************)
(* sanitizeFilename                                                        *)
(***************************************************************************)
\* The characters of /[\/\\:*?"<>|]/
Forbidden == {47, 92, 58, 42, 63, 34, 60, 62, 124}

Underscore == <<95>>

MaxNameLen == 100

\* .replace(/[\/\\:*?"<>|]/g, "")
RemoveForbidden(s) == SelectSeq(s, LAMBDA c : c \notin Forbidden)

\* .replace(/\s+/g, "_"): a maximal run of white space becomes one underscore.
\* The code units kept are those that are no white space and the first of
\* each run.
CollapseWhitespace(s) ==
    LET first == SelectSeq([i \in 1..Len(s) |-> i],
                           LAMBDA i : \/ s[i] \notin WhiteSpace
                                      \/ i = 1
                                      \/ s[i - 1] \notin WhiteSpace)
    IN  [j \in 1..Len(first) |-> IF s[first[j]] \in WhiteSpace THEN 95 ELSE s[first[j]]]

\* A replacement of the non-ASCII code units by question marks.
ReplaceNonAsciiByQuestion(s) == [i \in 1..Len(s) |-> IF s[i] \in 0..127 THEN s[i] ELSE 63]

\* .replace(/[^\x00-\x7F]/g, (char) => char.charCodeAt(0) < 128 ? char : "_")
ReplaceNonAscii(s) ==
    [i \in 1..Len(s) |->
        IF s[i] \in 0..127 THEN s[i]
        ELSE IF s[i] < 128 THEN s[i] ELSE 95]

\* String.prototype.substring(0, n)
Substring0(s, n) == SubSeq(s, 1, IF Len(s) < n THEN Len(s) ELSE n)

sanitizeFilename(name) ==
    Substring0(ReplaceNonAscii(CollapseWhitespace(RemoveForbidden(name))), MaxNameLen)

RECURSIVE TrimStart(_)
TrimStart(s) ==
    IF s # <<>> /\ Head(s) \in WhiteSpace THEN TrimStart(Tail(s)) ELSE s

RECURSIVE TrimEnd(_)
TrimEnd(s) ==
    IF s # <<>> /\ s[Len(s)] \in WhiteSpace THEN TrimEnd(SubSeq(s, 1, Len(s) - 1)) ELSE s

\* String.prototype.trim
Trim(s) == TrimEnd(TrimStart(s))

(***************************************************************************)
(* getYtDlpFormat, getFileExtension                                        *)
(***************************************************************************)
\* String.prototype.includes
Includes(hay, needle) ==
    \E i \in 1..(Len(hay) - Len(needle) + 1) :
        SubSeq(hay, i, i + Len(needle) - 1) = needle

\* A format selector whose second switch has no default case.
getYtDlpFormatNoDefault(quality, platform) ==
    IF platform # None /\ Includes(platform[1], NameYouTube)
    THEN CASE quality = "audio" -> "bestaudio[ext=m4a]/bestaudio"
           [] quality = "720" ->
                "bestvideo[height<=720][ext=mp4]+bestaudio[ext=m4a]/best[height<=720]"
           [] quality = "1080" ->
                "bestvideo[height<=1080][ext=mp4]+bestaudio[ext=m4a]/best[height<=1080]"
           [] quality \in {"4k", "2160"} ->
                "bestvideo[height<=2160][ext=mp4]+bestaudio[ext=m4a]/best[height<=2160]"
           [] OTHER -> "bestvideo[ext=mp4]+bestaudio[ext=m4a]/best[ext=mp4]/best"
    ELSE CASE quality = "audio" -> "bestaudio/best"
           [] quality = "720" -> "bv*[height<=720]+ba/b[height<=720]/b"
           [] quality = "1080" -> "bv*[height<=1080]+ba/b[height<=1080]/b"
           [] quality \in {"4k", "2160"} -> "bv*[height<=2160]+ba/b[height<=2160]/b"
           [] quality = "best" -> "bv*+ba/b"
           [] OTHER -> ""

\* quality is a string; platform is an optional platform name.
getYtDlpFormat(quality, platform) ==
    IF platform # None /\ Includes(platform[1], NameYouTube)
    THEN CASE quality = "audio" -> "bestaudio[ext=m4a]/bestaudio"
           [] quality = "720" ->
                "bestvideo[height<=720][ext=mp4]+bestaudio[ext=m4a]/best[height<=720]"
           [] quality = "1080" ->
                "bestvideo[height<=1080][ext=mp4]+bestaudio[ext=m4a]/best[height<=1080]"
           [] quality \in {"4k", "2160"} ->
                "bestvideo[height<=2160][ext=mp4]+bestaudio[ext=m4a]/best[height<=2160]"
           [] OTHER -> "bestvideo[ext=mp4]+bestaudio[ext=m4a]/best[ext=mp4]/best"
    ELSE CASE quality = "audio" -> "bestaudio/best"
           [] quality = "720" -> "bv*[height<=720]+ba/b[height<=720]/b"
           [] quality = "1080" -> "bv*[height<=1080]+ba/b[height<=1080]/b"
           [] quality \in {"4k", "2160"} -> "bv*[height<=2160]+ba/b[height<=2160]/b"
           [] OTHER -> "bv*+ba/b"

ExtM4a == <<109, 52, 97>>

ExtMp4 == <<109, 112, 52>>

\* An extension that does not depend on the quality.
getFileExtensionAlwaysMp4(quality) == ExtMp4

getFileExtension(quality) == IF quality = "audio" THEN ExtM4a ELSE ExtMp4

(***************************************************************************)
(* encodeURIComponent                                                      *)
(***************************************************************************)
\* A-Z a-z 0-9 - _ . ! ~ * ' ( )
Unreserved == (65..90) \cup (97..122) \cup (48..57) \cup {45, 95, 46, 33, 126, 42, 39, 40, 41}

HexDigits == <<48, 49, 50, 51, 52, 53, 54, 55, 56, 57, 65, 66, 67, 68, 69, 70>>

\* %XY for the byte b
PercentByte(b) == <<37, HexDigits[(b \div 16) + 1], HexDigits[(b % 16) + 1]>>

\* The UTF-8 bytes of the code point cp, percent-encoded.
PercentUtf8(cp) ==
    IF cp < 128 THEN PercentByte(cp)
    ELSE IF cp < 2048
         THEN PercentByte(192 + (cp \div 64)) \o PercentByte(128 + (cp % 64))
    ELSE IF cp < 65536
         THEN PercentByte(224 + (cp \div 4096)) \o PercentByte(128 + ((cp \div 64) % 64))
              \o PercentByte(128 + (cp % 64))
    ELSE PercentByte(240 + (cp \div 262144)) \o PercentByte(128 + ((cp \div 4096) % 64))
         \o PercentByte(128 + ((cp \div 64) % 64)) \o PercentByte(128 + (cp % 64))

HighSurrogate == 55296..56319

LowSurrogate == 56320..57343

RECURSIVE EncodeFrom(_, _)
\* The encoding of s from index i on; <<-1>> marks a URIError (a lone
\* surrogate), which no code unit sequence contains.
EncodeFrom(s, i) ==
    IF i > Len(s) THEN <<>>
    ELSE IF s[i] \in Unreserved THEN
        LET rest == EncodeFrom(s, i + 1)
        IN  IF rest = <<-1>> THEN rest ELSE <<s[i]>> \o rest
    ELSE IF s[i] \in HighSurrogate THEN
        IF i < Len(s) /\ s[i + 1] \in LowSurrogate
        THEN LET rest == EncodeFrom(s, i + 2)
                 cp == 65536 + (s[i] - 55296) * 1024 + (s[i + 1] - 56320)
             IN  IF rest = <<-1>> THEN rest ELSE PercentUtf8(cp) \o rest
        ELSE <<-1>>
    ELSE IF s[i] \in LowSurrogate THEN <<-1>>
    ELSE LET rest == EncodeFrom(s, i + 1)
         IN  IF rest = <<-1>> THEN rest ELSE PercentUtf8(s[i]) \o rest

URIError == <<-1>>

encodeURIComponent(s) == EncodeFrom(s, 1)

(***************************************************************************)
(* Bounds of the model.                                                    *)
(***************************************************************************)
\* The longest media, in chunks written by the downloader to its stdout.
MaxChunks == 2

\* The capacity of a stderr pipe, in bytes.
PipeCap == 1

(***************************************************************************)
(* The requests and their environment.                                     *)
(***************************************************************************)
Reqs == {"r1", "r2"}

Children == {"title", "ytdlp", "ffmpeg"}

\* https://youtu.be/a
UrlYouTube == <<104, 116, 116, 112, 115, 58, 47, 47, 121, 111, 117, 116, 117, 46, 98, 101, 47, 97>>

\* https://x.com/u/status/1
UrlTwitter ==
    <<104, 116, 116, 112, 115, 58, 47, 47, 120, 46, 99, 111, 109, 47, 117, 47, 115, 116,
      97, 116, 117, 115, 47, 49>>

\* https://example.com/not-a-platform
UrlOther ==
    <<104, 116, 116, 112, 115, 58, 47, 47, 101, 120, 97, 109, 112, 108, 101, 46, 99, 111,
      109, 47, 110, 111, 116, 45, 97, 45, 112, 108, 97, 116, 102, 111, 114, 109>>

\* The url parameter: absent, empty, unsupported, supported.
UrlParams == {None, Some(<<>>), Some(UrlOther), Some(UrlYouTube), Some(UrlTwitter)}

\* The quality parameter: absent, empty, a tier, an unrecognized value.
QualityParams == {None, Some(""), Some("audio"), Some("720"), Some("hd"), Some("Audio")}

\* What a title probe prints: nothing, white space only, "My Video\n", "???\n".
RawTitles ==
    { <<>>, <<32, 10>>, <<77, 121, 32, 86, 105, 100, 101, 111, 10>>, <<63, 63, 63, 10>> }

VARIABLES
    req,        \* req[r]: the request of client r, None when r sends none
    pc,         \* pc[r]: where streamVideo stands for request r
    resp,       \* resp[r]: the response returned for r
    aborted,    \* aborted[r]: req.signal.aborted
    listener,   \* listener[r]: the abort listener is registered on req.signal
    timer,      \* timer[r]: titleTimeout
    proc,       \* proc[r][c]: the state of child process c of request r
    cmd,        \* cmd[r][c]: the command line child c was spawned with
    probeText,  \* probeText[r]: what the title probe of r prints when it gets to
    titleBuf,   \* titleBuf[r]: what the title probe has written to its stdout
    title,      \* title[r]: the local variable title, None until it is assigned
    chunksLeft, \* chunksLeft[r]: chunks the downloader has yet to produce
    outBuf,     \* outBuf[r]: chunks in the downloader's stdout pipe
    readLog,    \* readLog[r]: chunks the relay has read
    stdinLog,   \* stdinLog[r]: chunks written to the transcoder's stdin
    stdinEnded, \* stdinEnded[r]: ffmpeg.stdin.end() was called
    relay,      \* relay[r]: the relay task
    drain,      \* drain[r]: the stderr drain task
    errLeft,    \* errLeft[r][c]: bytes child c has yet to write to stderr
    errBuf,     \* errBuf[r][c]: bytes in the stderr pipe of child c
    errGot,     \* errGot[r][c]: the drain has read stderr bytes of child c
    log,        \* log[r]: the console messages written for r
    call        \* a call of one of the functions of downloader.ts on its own

vars == <<call, req, pc, resp, aborted, listener, timer, proc, cmd, probeText, titleBuf,
          title, chunksLeft, outBuf, readLog, stdinLog, stdinEnded, relay, drain, errLeft,
          errBuf, errGot, log>>

\* The state of the server.
serverVars == <<req, pc, resp, aborted, listener, timer, proc, cmd, probeText, titleBuf,
                title, chunksLeft, outBuf, readLog, stdinLog, stdinEnded, relay, drain,
                errLeft, errBuf, errGot, log>>

\* No function is called on its own.
NoCall == [fn |-> "none"]

probeVars == <<probeText, titleBuf>>

pipeVars == <<chunksLeft, outBuf, readLog, stdinLog, stdinEnded>>

errVars == <<errLeft, errBuf, errGot>>

(***************************************************************************)
(* Child processes.                                                        *)
(***************************************************************************)
Alive == {"running", "blocked"}

Exited == {"ok", "fail", "signaled"}

NoCmd == [prog |-> "none"]

NoResp == [status |-> 0]

\* Subprocess.kill(): a signal to a process that has not exited.
Kill(st) == IF st \in Alive THEN "killed" ELSE st

\* clearTimeout(titleTimeout)
ClearTimeout(t) == IF t = "armed" THEN "cleared" ELSE t

\* A callback that kills nothing.
TimeoutCallbackNoKill(procs, r) == procs

\* setTimeout(() => titleProc.kill(), 10000): the callback
TimeoutCallback(procs, r) == [procs EXCEPT ![r].title = Kill(@)]

\* A listener over process handles shared by the requests.
AbortListenerShared(procs, r) ==
    [q \in DOMAIN procs |-> [procs[q] EXCEPT !.ffmpeg = Kill(@), !.ytdlp = Kill(@)]]

\* A listener that kills the transcoder only.
AbortListenerFfmpegOnly(procs, r) == [procs EXCEPT ![r].ffmpeg = Kill(@)]

\* The abort listener: ffmpeg.kill(); ytdlp.kill()
AbortListener(procs, r) == [procs EXCEPT ![r].ffmpeg = Kill(@), ![r].ytdlp = Kill(@)]

\* A catch that kills the transcoder only.
PipeCatchFfmpegOnly(procs, r) == [procs EXCEPT ![r].ffmpeg = Kill(@)]

\* The catch of the relay task: ffmpeg.kill(); ytdlp.kill()
PipeCatch(procs, r) == [procs EXCEPT ![r].ffmpeg = Kill(@), ![r].ytdlp = Kill(@)]

(***************************************************************************)
(* The responses of streamVideo.                                           *)
(***************************************************************************)
JsonHeaders == ("Content-Type" :> "application/json")

MissingUrlResponse ==
    [status |-> 400, headers |-> JsonHeaders,
     body |-> [error |-> "Missing url parameter"]]

UnsupportedUrlResponse ==
    [status |-> 400, headers |-> JsonHeaders,
     body |-> [error |-> "Unsupported URL",
               message |-> "Please provide a valid URL from supported platforms",
               supported |-> PlatformNames]]

\* An error response without its status option.
ErrorResponseNoStatus(message) ==
    [status |-> 200, headers |-> JsonHeaders,
     body |-> [error |-> "Failed to download video", message |-> message]]

\* The outer catch; message is the message of the error thrown.
ErrorResponse(message) ==
    [status |-> 500, headers |-> JsonHeaders,
     body |-> [error |-> "Failed to download video", message |-> message]]

\* attachment; filename="
DispositionHead ==
    <<97, 116, 116, 97, 99, 104, 109, 101, 110, 116, 59, 32, 102, 105, 108, 101, 110,
      97, 109, 101, 61, 34>>

\* "; filename*=UTF-8''
DispositionMid ==
    <<34, 59, 32, 102, 105, 108, 101, 110, 97, 109, 101, 42, 61, 85, 84, 70, 45, 56, 39, 39>>

StrAudio == <<97, 117, 100, 105, 111>>

StrVideo == <<118, 105, 100, 101, 111>>

Dot == <<46>>

ContentDisposition(isAudioOnly, ext, encodedFilename) ==
    DispositionHead \o (IF isAudioOnly THEN StrAudio ELSE StrVideo) \o Dot \o ext
    \o DispositionMid \o encodedFilename

ContentType(isAudioOnly) == IF isAudioOnly THEN "audio/mp4" ELSE "video/mp4"

\* new Response(ffmpeg.stdout, { headers })
StreamResponse(isAudioOnly, ext, encodedFilename) ==
    [status |-> 200,
     headers |-> ("Content-Type" :> ContentType(isAudioOnly))
              @@ ("Content-Disposition" :> ContentDisposition(isAudioOnly, ext, encodedFilename))
              @@ ("Cache-Control" :> "no-store")
              @@ ("X-Content-Type-Options" :> "nosniff"),
     body |-> "ffmpeg.stdout"]

(***************************************************************************)
(* The command lines.                                                      *)
(***************************************************************************)
TitleCmd(url) == [prog |-> "yt-dlp", args |-> <<"--print", "title">>, url |-> url]

YtdlpCmd(format, url) == [prog |-> "yt-dlp", args |-> <<"-f", format, "-o", "-">>, url |-> url]

FfmpegArgs(isAudioOnly) ==
    IF isAudioOnly
    THEN <<"-loglevel", "error", "-i", "pipe:0", "-c:a", "aac", "-b:a", "192k",
           "-f", "ipod", "pipe:1">>
    ELSE <<"-loglevel", "error", "-i", "pipe:0", "-c:v", "copy", "-c:a", "aac",
           "-movflags", "frag_keyframe+empty_moov", "-f", "mp4", "pipe:1">>

FfmpegCmd(isAudioOnly) == [prog |-> "ffmpeg", args |-> FfmpegArgs(isAudioOnly)]

\* new URL(req.url).pathname
PathOf(r) == req[r][1].path

\* searchParams.get("url")
UrlOf(r) == req[r][1].url

\* searchParams.get("quality") || "best"
QualityOf(r) ==
    LET q == req[r][1].quality
    IN  IF q = None \/ q[1] = "" THEN "best" ELSE q[1]

\* rawTitle.trim() || "video"
TitleOf(rawTitle) == IF Trim(rawTitle) = <<>> THEN StrVideo ELSE Trim(rawTitle)

\* The message of the error a failed Bun.spawn throws.
SpawnErrorMessage == "spawn failed"

\* The message of the URIError encodeURIComponent throws.
UriErrorMessage == "URI malformed"

(***************************************************************************)
(* streamVideo up to the first await: validation and the title probe.      *)
(***************************************************************************)
\* A validation that checks the presence of the parameter only.
ValidatePresenceOnly(url) == IF url = None \/ url[1] = <<>> THEN "missing" ELSE "ok"

\* The two checks of streamVideo on the url parameter (an optional string):
\* !url, then !isValidUrl(url).valid
Validate(url) ==
    IF url = None \/ url[1] = <<>> THEN "missing"
    ELSE IF ~isValidUrl(url[1]).valid THEN "unsupported"
    ELSE "ok"

Receive(r) ==
    /\ pc[r] = "new"
    /\ req[r] # None
    /\ LET url == UrlOf(r)
       IN  IF Validate(url) = "missing"
           THEN /\ resp' = [resp EXCEPT ![r] = MissingUrlResponse]
                /\ pc' = [pc EXCEPT ![r] = "rejected"]
                /\ UNCHANGED <<proc, cmd, timer, log>>
           ELSE IF Validate(url) = "unsupported"
           THEN /\ resp' = [resp EXCEPT ![r] = UnsupportedUrlResponse]
                /\ pc' = [pc EXCEPT ![r] = "rejected"]
                /\ UNCHANGED <<proc, cmd, timer, log>>
           ELSE \E spawned \in BOOLEAN :
                  IF spawned
                  THEN /\ proc' = [proc EXCEPT ![r].title = "running"]
                       /\ cmd' = [cmd EXCEPT ![r].title = TitleCmd(url[1])]
                       /\ timer' = [timer EXCEPT ![r] = "armed"]
                       /\ pc' = [pc EXCEPT ![r] = "probe_text"]
                       /\ UNCHANGED <<resp, log>>
                  ELSE \* Bun.spawn throws: the outer catch
                       /\ resp' = [resp EXCEPT ![r] = ErrorResponse(SpawnErrorMessage)]
                       /\ log' = [log EXCEPT ![r] = @ \cup {"Download error"}]
                       /\ pc' = [pc EXCEPT ![r] = "failed"]
                       /\ UNCHANGED <<proc, cmd, timer>>
    /\ UNCHANGED <<call, req, aborted, listener, probeVars, title, pipeVars, relay, drain, errVars>>

(***************************************************************************)
(* The server (index.ts): the fetch handler and its routes.                *)
(***************************************************************************)
\* The pathnames clients ask for: the routes and one that is none.
Paths == {"/", "/api/platforms", "/api/download", "/twitter/stream", "/health", "/nope"}

\* Date.now(), in some unit.
Clock == {1, 2}

\* getSupportedPlatforms()
getSupportedPlatforms ==
    [i \in 1..Len(SUPPORTED_PLATFORMS) |->
        [name |-> SUPPORTED_PLATFORMS[i].name, icon |-> SUPPORTED_PLATFORMS[i].icon]]

IndexResponse ==
    [status |-> 200,
     headers |-> ("Content-Type" :> "text/html") @@ ("Cache-Control" :> "public, max-age=300"),
     body |-> "../public/index.html"]

PlatformsResponse ==
    [status |-> 200,
     headers |-> ("Content-Type" :> "application/json")
              @@ ("Access-Control-Allow-Origin" :> "*"),
     body |-> getSupportedPlatforms]

HealthResponse(now) ==
    [status |-> 200, headers |-> ("Content-Type" :> "application/json"),
     body |-> [status |-> "ok", timestamp |-> now]]

\* A string body gets the content type of text.
NotFoundResponse ==
    [status |-> 404, headers |-> ("Content-Type" :> "text/plain;charset=UTF-8"),
     body |-> "Not Found"]

\* A route that answers at once.
Respond(r, response) ==
    /\ pc[r] = "new"
    /\ req[r] # None
    /\ resp' = [resp EXCEPT ![r] = response]
    /\ pc' = [pc EXCEPT ![r] = "served"]
    /\ UNCHANGED <<call, req, aborted, listener, timer, proc, cmd, probeVars, title, pipeVars,
                   relay, drain, errVars, log>>

\* fetch(req): the routes in the order of the handler.
Fetch(r) ==
    /\ req[r] # None
    /\ LET pathname == PathOf(r)
       IN  IF pathname = "/" THEN Respond(r, IndexResponse)
           ELSE IF pathname = "/api/platforms" THEN Respond(r, PlatformsResponse)
           ELSE IF pathname = "/api/download" THEN Receive(r)
           ELSE IF pathname = "/twitter/stream" THEN Receive(r)
           ELSE IF pathname = "/health" THEN \E now \in Clock : Respond(r, HealthResponse(now))
           ELSE Respond(r, NotFoundResponse)

(***************************************************************************)
(* streamVideo after the title probe: from clearTimeout to the return.     *)
(* p0 is proc[r] and log0 is log[r] as the probe phase leaves them.  The   *)
(* whole runs without an await, so nothing interleaves with it.            *)
(***************************************************************************)
Setup(r, p0, newTitle, log0) ==
    LET quality == QualityOf(r)
        url == UrlOf(r)[1]
        validation == isValidUrl(url)
        safeTitle == sanitizeFilename(newTitle)
        ext == getFileExtension(quality)
        filename == safeTitle \o Dot \o ext
        format == getYtDlpFormat(quality,
                                 IF validation.valid THEN Some(validation.platform) ELSE None)
        isAudioOnly == quality = "audio"
        encodedFilename == encodeURIComponent(filename)
        log1 == log0 \cup {"Downloading"}
    IN  /\ timer' = [timer EXCEPT ![r] = ClearTimeout(@)]
        /\ title' = [title EXCEPT ![r] = Some(newTitle)]
        /\ \E spawned \in {"none", "ytdlp", "both"} :
             CASE spawned = "none" ->
                    \* Bun.spawn of the downloader throws
                    /\ proc' = [proc EXCEPT ![r] = p0]
                    /\ resp' = [resp EXCEPT ![r] = ErrorResponse(SpawnErrorMessage)]
                    /\ log' = [log EXCEPT ![r] = log1 \cup {"Download error"}]
                    /\ pc' = [pc EXCEPT ![r] = "failed"]
                    /\ UNCHANGED <<cmd, relay, listener, drain>>
               [] spawned = "ytdlp" ->
                    \* Bun.spawn of the transcoder throws
                    /\ proc' = [proc EXCEPT ![r] = [p0 EXCEPT !.ytdlp = "running"]]
                    /\ cmd' = [cmd EXCEPT ![r].ytdlp = YtdlpCmd(format, url)]
                    /\ resp' = [resp EXCEPT ![r] = ErrorResponse(SpawnErrorMessage)]
                    /\ log' = [log EXCEPT ![r] = log1 \cup {"Download error"}]
                    /\ pc' = [pc EXCEPT ![r] = "failed"]
                    /\ UNCHANGED <<relay, listener, drain>>
               [] spawned = "both" ->
                    /\ proc' = [proc EXCEPT ![r] =
                                  [p0 EXCEPT !.ytdlp = "running", !.ffmpeg = "running"]]
                    /\ cmd' = [cmd EXCEPT ![r].ytdlp = YtdlpCmd(format, url),
                                          ![r].ffmpeg = FfmpegCmd(isAudioOnly)]
                    /\ relay' = [relay EXCEPT ![r] = "running"]
                    /\ listener' = [listener EXCEPT ![r] = TRUE]
                    /\ drain' = [drain EXCEPT ![r] = "ytdlp"]
                    /\ IF encodedFilename = URIError
                       THEN /\ resp' = [resp EXCEPT ![r] = ErrorResponse(UriErrorMessage)]
                            /\ log' = [log EXCEPT ![r] = log1 \cup {"Download error"}]
                            /\ pc' = [pc EXCEPT ![r] = "failed"]
                       ELSE /\ resp' = [resp EXCEPT ![r] =
                                          StreamResponse(isAudioOnly, ext, encodedFilename)]
                            /\ log' = [log EXCEPT ![r] = log1]
                            /\ pc' = [pc EXCEPT ![r] = "streaming"]

(***************************************************************************)
(* The title probe.                                                        *)
(***************************************************************************)
\* The probe prints the title.
ProbeWrite(r) ==
    /\ pc[r] = "probe_text"
    /\ proc[r].title = "running"
    /\ titleBuf[r] = <<>>
    /\ probeText[r] # <<>>
    /\ titleBuf' = [titleBuf EXCEPT ![r] = probeText[r]]
    /\ UNCHANGED <<call, req, pc, resp, aborted, listener, timer, proc, cmd, probeText, title,
                   pipeVars, relay, drain, errVars, log>>

\* titleTimeout fires.
TimerFire(r) ==
    /\ timer[r] = "armed"
    /\ timer' = [timer EXCEPT ![r] = "fired"]
    /\ proc' = TimeoutCallback(proc, r)
    /\ UNCHANGED <<call, req, pc, resp, aborted, listener, cmd, probeVars, title, pipeVars,
                   relay, drain, errVars, log>>

\* The probe's stdout reaches end-of-stream: text() resolves.  When the probe
\* has exited, titleProc.exited is resolved already and streamVideo runs on.
ProbeEof(r) ==
    /\ pc[r] = "probe_text"
    /\ IF proc[r].title \in Exited
       THEN Setup(r, proc[r], TitleOf(titleBuf[r]), log[r])
       ELSE /\ pc' = [pc EXCEPT ![r] = "probe_exit"]
            /\ UNCHANGED <<resp, timer, title, proc, cmd, relay, listener, drain, log>>
    /\ UNCHANGED <<call, req, aborted, probeVars, pipeVars, errVars>>

\* Reading the probe's stdout fails: the inner catch.
ProbeReadError(r) ==
    /\ pc[r] = "probe_text"
    /\ Setup(r, proc[r], StrVideo, log[r] \cup {"Title fetch failed"})
    /\ UNCHANGED <<call, req, aborted, probeVars, pipeVars, errVars>>

\* The probe exits, by itself or killed.  When streamVideo awaits
\* titleProc.exited it runs on.
TitleExit(r) ==
    /\ proc[r].title \in Alive \cup {"killed"}
    /\ \E st \in (IF proc[r].title = "killed" THEN {"signaled"} ELSE {"ok", "fail"}) :
         LET p1 == [proc[r] EXCEPT !.title = st]
         IN  IF pc[r] = "probe_exit"
             THEN Setup(r, p1, TitleOf(titleBuf[r]), log[r])
             ELSE /\ proc' = [proc EXCEPT ![r] = p1]
                  /\ UNCHANGED <<pc, resp, timer, title, cmd, relay, listener, drain, log>>
    /\ UNCHANGED <<call, req, aborted, probeVars, pipeVars, errVars>>

(***************************************************************************)
(* The client.                                                             *)
(***************************************************************************)
\* The client disconnects: req.signal is aborted and the listeners
\* registered on it by now run.
Abort(r) ==
    /\ pc[r] \in {"probe_text", "probe_exit", "streaming"}
    /\ ~aborted[r]
    /\ aborted' = [aborted EXCEPT ![r] = TRUE]
    /\ IF listener[r]
       THEN /\ log' = [log EXCEPT ![r] = @ \cup {"Client disconnected"}]
            /\ proc' = AbortListener(proc, r)
       ELSE UNCHANGED <<log, proc>>
    /\ UNCHANGED <<call, req, pc, resp, listener, timer, cmd, probeVars, title, pipeVars, relay,
                   drain, errVars>>

(***************************************************************************)
(* The downloader and the transcoder.                                      *)
(***************************************************************************)
\* The downloader writes the next chunk of the media to its stdout.
YtdlpProduce(r) ==
    /\ proc[r].ytdlp = "running"
    /\ chunksLeft[r] > 0
    /\ outBuf' = [outBuf EXCEPT ![r] = Append(@, Len(readLog[r]) + Len(@) + 1)]
    /\ chunksLeft' = [chunksLeft EXCEPT ![r] = @ - 1]
    /\ UNCHANGED <<call, req, pc, resp, aborted, listener, timer, proc, cmd, probeVars, title,
                   readLog, stdinLog, stdinEnded, relay, drain, errVars, log>>

\* Child c writes a byte to its stderr; with the pipe full the write blocks.
ErrWrite(r, c) ==
    /\ proc[r][c] = "running"
    /\ errLeft[r][c] > 0
    /\ IF errBuf[r][c] < PipeCap
       THEN /\ errBuf' = [errBuf EXCEPT ![r][c] = @ + 1]
            /\ errLeft' = [errLeft EXCEPT ![r][c] = @ - 1]
            /\ UNCHANGED proc
       ELSE /\ proc' = [proc EXCEPT ![r][c] = "blocked"]
            /\ UNCHANGED <<errBuf, errLeft>>
    /\ UNCHANGED <<call, req, pc, resp, aborted, listener, timer, cmd, probeVars, title,
                   pipeVars, relay, drain, errGot, log>>

\* The downloader or the transcoder exits: killed, failing, or done (the
\* downloader when the media is written, the transcoder when its stdin ended).
ChildExit(r, c) ==
    /\ c \in {"ytdlp", "ffmpeg"}
    /\ proc[r][c] \in {"running", "killed"}
    /\ \E st \in (IF proc[r][c] = "killed" THEN {"signaled"} ELSE {"ok", "fail"}) :
         /\ st = "ok" => IF c = "ytdlp" THEN chunksLeft[r] = 0 ELSE stdinEnded[r]
         /\ proc' = [proc EXCEPT ![r][c] = st]
    /\ UNCHANGED <<call, req, pc, resp, aborted, listener, timer, cmd, probeVars, title,
                   pipeVars, relay, drain, errVars, log>>

(***************************************************************************)
(* The relay task: yt-dlp stdout to ffmpeg stdin.                          *)
(***************************************************************************)
\* A write that is lost.
StdinWriteLost(sink, value) == sink

\* ffmpeg.stdin.write(value)
StdinWrite(sink, value) == Append(sink, value)

\* Whether a write to, or the end of, the transcoder's stdin can throw.
CanThrow(st) == st \notin Alive

\* reader.read() resolves: a chunk, which is written to ffmpeg.stdin, or done,
\* upon which ffmpeg.stdin is ended.  A throw goes to the catch.
RelayStep(r) ==
    /\ relay[r] = "running"
    /\ \/ /\ outBuf[r] # <<>>
          /\ outBuf' = [outBuf EXCEPT ![r] = Tail(@)]
          /\ readLog' = [readLog EXCEPT ![r] = Append(@, Head(outBuf[r]))]
          /\ \E throws \in (IF CanThrow(proc[r].ffmpeg) THEN BOOLEAN ELSE {FALSE}) :
               IF throws
               THEN /\ relay' = [relay EXCEPT ![r] = "failed"]
                    /\ log' = [log EXCEPT ![r] = @ \cup {"Pipe failed"}]
                    /\ proc' = PipeCatch(proc, r)
                    /\ UNCHANGED <<stdinLog, stdinEnded>>
               ELSE /\ stdinLog' = [stdinLog EXCEPT ![r] = StdinWrite(@, Head(outBuf[r]))]
                    /\ UNCHANGED <<relay, log, proc, stdinEnded>>
       \/ /\ outBuf[r] = <<>>
          /\ proc[r].ytdlp \in Exited
          /\ \E throws \in (IF CanThrow(proc[r].ffmpeg) THEN BOOLEAN ELSE {FALSE}) :
               IF throws
               THEN /\ relay' = [relay EXCEPT ![r] = "failed"]
                    /\ log' = [log EXCEPT ![r] = @ \cup {"Pipe failed"}]
                    /\ proc' = PipeCatch(proc, r)
                    /\ UNCHANGED <<stdinEnded>>
               ELSE /\ stdinEnded' = [stdinEnded EXCEPT ![r] = TRUE]
                    /\ relay' = [relay EXCEPT ![r] = "ended"]
                    /\ UNCHANGED <<log, proc>>
          /\ UNCHANGED <<outBuf, readLog, stdinLog>>
    /\ UNCHANGED <<call, req, pc, resp, aborted, listener, timer, cmd, probeVars, title,
                   chunksLeft, drain, errVars>>

\* reader.read() rejects: the catch.
RelayReadError(r) ==
    /\ relay[r] = "running"
    /\ relay' = [relay EXCEPT ![r] = "failed"]
    /\ log' = [log EXCEPT ![r] = @ \cup {"Pipe failed"}]
    /\ proc' = PipeCatch(proc, r)
    /\ UNCHANGED <<call, req, pc, resp, aborted, listener, timer, cmd, probeVars, title,
                   pipeVars, drain, errVars>>

(***************************************************************************)
(* The stderr drain task: yt-dlp's stderr to its end, then ffmpeg's.       *)
(***************************************************************************)
\* The child whose stderr the drain task reads, if any.
Draining(d) == IF d \in {"ytdlp", "ffmpeg"} THEN {d} ELSE {}

\* What the drain task awaits after the stderr of child c has ended.
DrainAfter(c) == IF c = "ytdlp" THEN "ffmpeg" ELSE "done"

\* text() takes what the stderr pipe holds; a writer blocked on it goes on.
DrainRead(r) ==
    /\ \E c \in Draining(drain[r]) :
         /\ errBuf[r][c] > 0
         /\ errBuf' = [errBuf EXCEPT ![r][c] = 0]
         /\ errGot' = [errGot EXCEPT ![r][c] = TRUE]
         /\ proc' = [proc EXCEPT ![r][c] = IF @ = "blocked" THEN "running" ELSE @]
    /\ UNCHANGED <<call, req, pc, resp, aborted, listener, timer, cmd, probeVars, title,
                   pipeVars, relay, drain, errLeft, log>>

\* The stderr read reaches end-of-stream: text() resolves, the text is logged
\* when not empty, and the task goes on to the next stream.
DrainEof(r) ==
    /\ \E c \in Draining(drain[r]) :
         /\ proc[r][c] \in Exited
         /\ errBuf[r][c] = 0
         /\ drain' = [drain EXCEPT ![r] = DrainAfter(c)]
         /\ log' = [log EXCEPT ![r] = IF errGot[r][c] THEN @ \cup {c} ELSE @]
    /\ UNCHANGED <<call, req, pc, resp, aborted, listener, timer, proc, cmd, probeVars, title,
                   pipeVars, relay, errVars>>

(***************************************************************************)
(* The specifications.                                                     *)
(***************************************************************************)
\* GET /api/download with every url and quality parameter.
Requests ==
    {Some([path |-> "/api/download", url |-> u, quality |-> q]) :
        u \in UrlParams, q \in QualityParams}

\* GET of every path, with every url parameter and no quality.
Routed ==
    {Some([path |-> p, url |-> u, quality |-> None]) : p \in Paths, u \in UrlParams}

\* What does not depend on the requests sent.
InitRest ==
    /\ pc = [r \in Reqs |-> "new"]
    /\ resp = [r \in Reqs |-> NoResp]
    /\ aborted = [r \in Reqs |-> FALSE]
    /\ listener = [r \in Reqs |-> FALSE]
    /\ timer = [r \in Reqs |-> "unset"]
    /\ proc = [r \in Reqs |-> [c \in Children |-> "none"]]
    /\ cmd = [r \in Reqs |-> [c \in Children |-> NoCmd]]
    /\ titleBuf = [r \in Reqs |-> <<>>]
    /\ title = [r \in Reqs |-> None]
    /\ outBuf = [r \in Reqs |-> <<>>]
    /\ readLog = [r \in Reqs |-> <<>>]
    /\ stdinLog = [r \in Reqs |-> <<>>]
    /\ stdinEnded = [r \in Reqs |-> FALSE]
    /\ relay = [r \in Reqs |-> "none"]
    /\ drain = [r \in Reqs |-> "none"]
    /\ errBuf = [r \in Reqs |-> [c \in {"ytdlp", "ffmpeg"} |-> 0]]
    /\ errGot = [r \in Reqs |-> [c \in {"ytdlp", "ffmpeg"} |-> FALSE]]
    /\ log = [r \in Reqs |-> {}]

Only(x, none) == [r \in Reqs |-> IF r = "r1" THEN x ELSE none]

Quiet == [c \in {"ytdlp", "ffmpeg"} |-> 0]

\* A process either writes nothing to stderr or more than the pipe holds.
Noises == [{"ytdlp", "ffmpeg"} -> {0, PipeCap + 1}]

\* GET /api/download?url=https://youtu.be/a&quality=audio
RequestA ==
    Some([path |-> "/api/download", url |-> Some(UrlYouTube), quality |-> Some("audio")])

\* My Video\n
TitleA == <<77, 121, 32, 86, 105, 100, 101, 111, 10>>

\* One client sends a request; the other sends none.  The request and the
\* title vary over a short quiet media, the length of the media varies over
\* one request, and so does the stderr output; the path varies over requests
\* for an empty media.
Init ==
    /\ InitRest
    /\ call = NoCall
    /\ \/ /\ \E q \in Requests : req = Only(q, None)
          /\ \E t \in RawTitles : probeText = Only(t, <<>>)
          /\ chunksLeft = Only(1, 0)
          /\ errLeft = Only(Quiet, Quiet)
       \/ /\ req = Only(RequestA, None)
          /\ probeText = Only(TitleA, <<>>)
          /\ \E n \in 0..MaxChunks : chunksLeft = Only(n, 0)
          /\ errLeft = Only(Quiet, Quiet)
       \/ /\ req = Only(RequestA, None)
          /\ probeText = Only(TitleA, <<>>)
          /\ chunksLeft = Only(1, 0)
          /\ \E e \in Noises : errLeft = Only(e, Quiet)
       \/ /\ \E q \in Routed : req = Only(q, None)
          /\ probeText = Only(TitleA, <<>>)
          /\ chunksLeft = Only(0, 0)
          /\ errLeft = Only(Quiet, Quiet)

Next ==
    \E r \in Reqs :
       \/ Fetch(r)
       \/ ProbeWrite(r)
       \/ TimerFire(r)
       \/ ProbeEof(r)
       \/ ProbeReadError(r)
       \/ TitleExit(r)
       \/ Abort(r)
       \/ YtdlpProduce(r)
       \/ \E c \in {"ytdlp", "ffmpeg"} : ErrWrite(r, c)
       \/ \E c \in {"ytdlp", "ffmpeg"} : ChildExit(r, c)
       \/ RelayStep(r)
       \/ RelayReadError(r)
       \/ DrainRead(r)
       \/ DrainEof(r)

Spec == Init /\ [][Next]_vars

\* What the scheduling guarantees: an armed timer fires, a killed process
\* exits, the stdout of an exited process reaches end-of-stream, and the event
\* loop runs the relay and drain tasks when their reads can resolve.  Nothing
\* makes a running process make progress or exit, and nothing makes a read fail.
Fairness ==
    \A r \in Reqs :
       /\ WF_vars(TimerFire(r))
       /\ WF_vars(proc[r].title = "killed" /\ TitleExit(r))
       /\ WF_vars(proc[r].title \in Exited /\ ProbeEof(r))
       /\ \A c \in {"ytdlp", "ffmpeg"} : WF_vars(proc[r][c] = "killed" /\ ChildExit(r, c))
       /\ WF_vars(RelayStep(r))
       /\ WF_vars(DrainEof(r))

\* One request for a media of MaxChunks chunks, with a quiet stderr.
FairInit ==
    /\ InitRest
    /\ call = NoCall
    /\ req = Only(RequestA, None)
    /\ probeText = Only(TitleA, <<>>)
    /\ chunksLeft = Only(MaxChunks, 0)
    /\ errLeft = Only(Quiet, Quiet)

\* The steps of a request whose processes write nothing to stderr.
FairNext ==
    \E r \in Reqs :
       \/ Fetch(r)
       \/ ProbeWrite(r)
       \/ TimerFire(r)
       \/ ProbeEof(r)
       \/ ProbeReadError(r)
       \/ TitleExit(r)
       \/ Abort(r)
       \/ YtdlpProduce(r)
       \/ \E c \in {"ytdlp", "ffmpeg"} : ChildExit(r, c)
       \/ RelayStep(r)
       \/ RelayReadError(r)
       \/ DrainEof(r)

FairSpec == FairInit /\ [][FairNext]_vars /\ Fairness

\* GET /twitter/stream?url=https://x.com/u/status/1
RequestB == Some([path |-> "/twitter/stream", url |-> Some(UrlTwitter), quality |-> None])

\* Two clients send a request each.  The titles and the media are empty and
\* nothing is written to stderr.
IsoInit ==
    /\ InitRest
    /\ call = NoCall
    /\ req = [r \in Reqs |-> IF r = "r1" THEN RequestA ELSE RequestB]
    /\ probeText = [r \in Reqs |-> <<>>]
    /\ chunksLeft = [r \in Reqs |-> 0]
    /\ errLeft = [r \in Reqs |-> Quiet]

\* The steps of two requests whose probes' stdout is read without an error.
IsoNext ==
    \E r \in Reqs :
       \/ Fetch(r)
       \/ TimerFire(r)
       \/ ProbeEof(r)
       \/ TitleExit(r)
       \/ Abort(r)
       \/ \E c \in {"ytdlp", "ffmpeg"} : ChildExit(r, c)
       \/ RelayStep(r)
       \/ RelayReadError(r)
       \/ DrainEof(r)

IsoSpec == IsoInit /\ [][IsoNext]_vars

(***************************************************************************)
(* Calls of the functions of downloader.ts on their own.                   *)
(***************************************************************************)
\* https://dailymotion.com/video/a
UrlDailymotion ==
    <<104, 116, 116, 112, 115, 58, 47, 47, 100, 97, 105, 108, 121, 109, 111, 116,
      105, 111, 110, 46, 99, 111, 109, 47, 118, 105, 100, 101, 111, 47, 97>>

\* The urls isValidUrl is called with: the empty one, urls of every platform
\* and urls that miss a pattern by little.
CallUrls ==
    { <<>>, UrlOther, UrlYouTube, UrlTwitter, UrlDailymotion,
      \* http://www.twitter.com/a/b/status/12
      <<104, 116, 116, 112, 58, 47, 47, 119, 119, 119, 46, 116, 119, 105, 116,
        116, 101, 114, 46, 99, 111, 109, 47, 97, 47, 98, 47, 115, 116, 97, 116,
        117, 115, 47, 49, 50>>,
      \* https://x.com/status/1
      <<104, 116, 116, 112, 115, 58, 47, 47, 120, 46, 99, 111, 109, 47, 115,
        116, 97, 116, 117, 115, 47, 49>>,
      \* https://x.com/a\nb/status/1
      <<104, 116, 116, 112, 115, 58, 47, 47, 120, 46, 99, 111, 109, 47, 97, 10,
        98, 47, 115, 116, 97, 116, 117, 115, 47, 49>>,
      \* https://x.com/https://youtu.be/a/status/1
      <<104, 116, 116, 112, 115, 58, 47, 47, 120, 46, 99, 111, 109, 47, 104,
        116, 116, 112, 115, 58, 47, 47, 121, 111, 117, 116, 117, 46, 98, 101,
        47, 97, 47, 115, 116, 97, 116, 117, 115, 47, 49>>,
      \* https://instagram.com/p/Ab-1
      <<104, 116, 116, 112, 115, 58, 47, 47, 105, 110, 115, 116, 97, 103, 114,
        97, 109, 46, 99, 111, 109, 47, 112, 47, 65, 98, 45, 49>>,
      \* https://www.instagram.com/reel/x
      <<104, 116, 116, 112, 115, 58, 47, 47, 119, 119, 119, 46, 105, 110, 115,
        116, 97, 103, 114, 97, 109, 46, 99, 111, 109, 47, 114, 101, 101, 108,
        47, 120>>,
      \* https://instagram.com/tv/
      <<104, 116, 116, 112, 115, 58, 47, 47, 105, 110, 115, 116, 97, 103, 114,
        97, 109, 46, 99, 111, 109, 47, 116, 118, 47>>,
      \* https://www.youtube.com/watch?v=a-b
      <<104, 116, 116, 112, 115, 58, 47, 47, 119, 119, 119, 46, 121, 111, 117,
        116, 117, 98, 101, 46, 99, 111, 109, 47, 119, 97, 116, 99, 104, 63, 118,
        61, 97, 45, 98>>,
      \* https://youtube.com/shorts/a
      <<104, 116, 116, 112, 115, 58, 47, 47, 121, 111, 117, 116, 117, 98, 101,
        46, 99, 111, 109, 47, 115, 104, 111, 114, 116, 115, 47, 97>>,
      \* ftp://youtu.be/a
      <<102, 116, 112, 58, 47, 47, 121, 111, 117, 116, 117, 46, 98, 101, 47,
        97>>,
      \* xhttps://youtu.be/a
      <<120, 104, 116, 116, 112, 115, 58, 47, 47, 121, 111, 117, 116, 117, 46,
        98, 101, 47, 97>>,
      \* HTTPS://YOUTU.BE/a
      <<72, 84, 84, 80, 83, 58, 47, 47, 89, 79, 85, 84, 85, 46, 66, 69, 47, 97>>,
      \* https://wwwxyoutu.be/a
      <<104, 116, 116, 112, 115, 58, 47, 47, 119, 119, 119, 120, 121, 111, 117,
        116, 117, 46, 98, 101, 47, 97>>,
      \* https://reddit.com/r/a/comments/b
      <<104, 116, 116, 112, 115, 58, 47, 47, 114, 101, 100, 100, 105, 116, 46,
        99, 111, 109, 47, 114, 47, 97, 47, 99, 111, 109, 109, 101, 110, 116,
        115, 47, 98>>,
      \* https://www.tiktok.com/@a.b/video/1
      <<104, 116, 116, 112, 115, 58, 47, 47, 119, 119, 119, 46, 116, 105, 107,
        116, 111, 107, 46, 99, 111, 109, 47, 64, 97, 46, 98, 47, 118, 105, 100,
        101, 111, 47, 49>>,
      \* https://vm.tiktok.com/a
      <<104, 116, 116, 112, 115, 58, 47, 47, 118, 109, 46, 116, 105, 107, 116,
        111, 107, 46, 99, 111, 109, 47, 97>>,
      \* https://facebook.com/watch?v=1
      <<104, 116, 116, 112, 115, 58, 47, 47, 102, 97, 99, 101, 98, 111, 111,
        107, 46, 99, 111, 109, 47, 119, 97, 116, 99, 104, 63, 118, 61, 49>>,
      \* https://fb.watch/watch/?v=1
      <<104, 116, 116, 112, 115, 58, 47, 47, 102, 98, 46, 119, 97, 116, 99, 104,
        47, 119, 97, 116, 99, 104, 47, 63, 118, 61, 49>>,
      \* https://facebook.com/a.b/videos/1
      <<104, 116, 116, 112, 115, 58, 47, 47, 102, 97, 99, 101, 98, 111, 111,
        107, 46, 99, 111, 109, 47, 97, 46, 98, 47, 118, 105, 100, 101, 111, 115,
        47, 49>>,
      \* https://vimeo.com/1abc
      <<104, 116, 116, 112, 115, 58, 47, 47, 118, 105, 109, 101, 111, 46, 99,
        111, 109, 47, 49, 97, 98, 99>>,
      \* https://vimeo.com/a
      <<104, 116, 116, 112, 115, 58, 47, 47, 118, 105, 109, 101, 111, 46, 99,
        111, 109, 47, 97>>,
      \* https://clips.twitch.tv/a
      <<104, 116, 116, 112, 115, 58, 47, 47, 99, 108, 105, 112, 115, 46, 116,
        119, 105, 116, 99, 104, 46, 116, 118, 47, 97>>,
      \* https://twitch.tv/a/clip/b
      <<104, 116, 116, 112, 115, 58, 47, 47, 116, 119, 105, 116, 99, 104, 46,
        116, 118, 47, 97, 47, 99, 108, 105, 112, 47, 98>>,
      \* https://pinterest.co.uk/pin/1
      <<104, 116, 116, 112, 115, 58, 47, 47, 112, 105, 110, 116, 101, 114, 101,
        115, 116, 46, 99, 111, 46, 117, 107, 47, 112, 105, 110, 47, 49>>,
      \* https://pinterest.ca/pin/1
      <<104, 116, 116, 112, 115, 58, 47, 47, 112, 105, 110, 116, 101, 114, 101,
        115, 116, 46, 99, 97, 47, 112, 105, 110, 47, 49>>,
      \* https://pinterest.de/pin/1
      <<104, 116, 116, 112, 115, 58, 47, 47, 112, 105, 110, 116, 101, 114, 101,
        115, 116, 46, 100, 101, 47, 112, 105, 110, 47, 49>> }

\* The qualities getYtDlpFormat is called with: the tiers, the empty string,
\* values that are no tier, and None for a request without the parameter.
CallQualities ==
    {None} \cup {Some(q) : q \in {"", "audio", "720", "1080", "4k", "2160", "best", "hd",
                                  "Audio", "4K", "720p"}}

\* The platforms getYtDlpFormat is called with: undefined, the names of the
\* list, and names of no platform.
CallPlatforms ==
    {None} \cup {Some(PlatformNames[i]) : i \in 1..Len(PlatformNames)}
    \cup { Some(<<>>),
           \* YouTube Music
           Some(<<89, 111, 117, 84, 117, 98, 101, 32, 77, 117, 115, 105, 99>>),
           \* youtube
           Some(<<121, 111, 117, 116, 117, 98, 101>>) }

\* The longest tail of a title after its run of letters.
MaxTail == 2

\* a, space, tab, /, ?, _, e acute, ideographic space, a high surrogate
TitleAlphabet == {97, 32, 9, 47, 63, 95, 233, 12288, 55357}

\* n times the code unit c
Rep(c, n) == [i \in 1..n |-> c]

\* The titles sanitizeFilename is called with: a run of letters, empty or one
\* short of the limit, and a tail over the alphabet.
CallTitles ==
    {Rep(97, n) \o t : n \in {0, MaxNameLen - 1},
                       t \in UNION {[1..k -> TitleAlphabet] : k \in 0..MaxTail}}

\* isValidUrl(url)
CallIsValidUrl ==
    /\ call.fn = "isValidUrl"
    /\ call.ret = <<>>
    /\ call' = [call EXCEPT !.ret = <<isValidUrl(call.arg)>>]
    /\ UNCHANGED serverVars

\* getYtDlpFormat(quality, platform), quality being the parameter of the
\* request, defaulted as streamVideo does when the request has none.
CallGetYtDlpFormat ==
    /\ call.fn = "getYtDlpFormat"
    /\ call.ret = <<>>
    /\ LET quality == IF call.arg.quality = None THEN "best" ELSE call.arg.quality[1]
       IN  call' = [call EXCEPT !.ret = <<getYtDlpFormat(quality, call.arg.platform)>>]
    /\ UNCHANGED serverVars

\* sanitizeFilename(name), and then sanitizeFilename of what it returned.
CallSanitizeFilename ==
    /\ call.fn = "sanitizeFilename"
    /\ Len(call.ret) < 2
    /\ LET name == IF call.ret = <<>> THEN call.arg ELSE call.ret[1]
       IN  call' = [call EXCEPT !.ret = Append(@, sanitizeFilename(name))]
    /\ UNCHANGED serverVars

\* No request is sent; one function is called on one input.
PureInit ==
    /\ InitRest
    /\ req = [r \in Reqs |-> None]
    /\ probeText = [r \in Reqs |-> <<>>]
    /\ chunksLeft = [r \in Reqs |-> 0]
    /\ errLeft = [r \in Reqs |-> Quiet]
    /\ \/ \E u \in CallUrls : call = [fn |-> "isValidUrl", arg |-> u, ret |-> <<>>]
       \/ \E q \in CallQualities, p \in CallPlatforms :
            call = [fn |-> "getYtDlpFormat", arg |-> [quality |-> q, platform |-> p],
                    ret |-> <<>>]
       \/ \E t \in CallTitles : call = [fn |-> "sanitizeFilename", arg |-> t, ret |-> <<>>]

PureNext == CallIsValidUrl \/ CallGetYtDlpFormat \/ CallSanitizeFilename

PureSpec == PureInit /\ [][PureNext]_vars

(***************************************************************************)
(* Cancellation.                                                           *)
(***************************************************************************)
Pipeline == {"ytdlp", "ffmpeg"}

\* C1: whenever a request is aborted, at whatever point after validation, no
\* downloader or transcoder spawned for it is running without having been
\* killed.
C1_AbortAlwaysKillsBoth ==
    \A r \in Reqs : aborted[r] => \A c \in Pipeline : proc[r][c] \notin Alive

\* The abort listener has run for r: the client disconnected while the
\* response was streaming.
AbortedMidDownload(r) == pc[r] = "streaming" /\ "Client disconnected" \in log[r]

\* C2: an abort while the response is streaming (both processes spawned, the
\* listener registered) delivers the kill to the downloader and to the
\* transcoder in that step, whatever the relay and the drain have done, and
\* both processes then exit.
C2_AbortMidDownloadKillsBoth ==
    /\ [][\A r \in Reqs :
            (pc[r] = "streaming" /\ listener[r] /\ ~aborted[r] /\ aborted'[r])
            => \A c \in Pipeline : proc'[r][c] \in {"killed"} \cup Exited]_vars
    /\ \A r \in Reqs :
         AbortedMidDownload(r) ~> (\A c \in Pipeline : proc[r][c] \in Exited)

\* C2's case: the listener ran while both processes were alive, and both
\* have exited on the signal.
C2_Witness ==
    \E r \in Reqs :
       /\ AbortedMidDownload(r)
       /\ \A c \in Pipeline : proc[r][c] = "signaled"
       /\ readLog[r] # <<>>
       /\ relay[r] = "running"

(***************************************************************************)
(* The relay.                                                              *)
(***************************************************************************)
\* The downloader's stdout has ended and the relay has taken all of it.
StdoutEnded(r) == proc[r].ytdlp \in Exited /\ outBuf[r] = <<>>

\* C3: the relay forwards every chunk it reads to the transcoder's stdin, in
\* order and once; stdin is closed only after the downloader's stdout ended
\* and all chunks were written; and once the downloader's stdout has ended
\* and the relay task is over, the transcoder's stdin has been closed.
C3_RelayForwardsAndCloses ==
    \A r \in Reqs :
       relay[r] # "none" =>
          /\ stdinLog[r] = readLog[r]
          /\ stdinEnded[r] => StdoutEnded(r)
          /\ (relay[r] # "running" /\ StdoutEnded(r)) => stdinEnded[r]

\* s is t, or t without its last element.
AllButLast(s, t) == s = t \/ (t # <<>> /\ s = SubSeq(t, 1, Len(t) - 1))

\* C3 (amended): the chunks are read in the order written; until the relay
\* fails every chunk read is on the transcoder's stdin, in order and once, and
\* after a failure all but the chunk whose write failed; stdin is closed only
\* by a relay that has not failed, after the downloader's stdout ended and all
\* chunks were written; and once the downloader's stdout has ended the relay
\* closes stdin or fails.
C3_RelayForwardsUntilFailure ==
    /\ [](\A r \in Reqs :
            relay[r] # "none" =>
               /\ readLog[r] \o outBuf[r] = [i \in 1..(Len(readLog[r]) + Len(outBuf[r])) |-> i]
               /\ relay[r] \in {"running", "ended"} => stdinLog[r] = readLog[r]
               /\ relay[r] = "failed" => AllButLast(stdinLog[r], readLog[r])
               /\ stdinEnded[r] <=> relay[r] = "ended"
               /\ stdinEnded[r] => StdoutEnded(r) /\ stdinLog[r] = readLog[r])
    /\ \A r \in Reqs :
         (relay[r] = "running" /\ proc[r].ytdlp \in Exited)
         ~> (stdinEnded[r] \/ relay[r] = "failed")

\* C3's case: the whole media went through the relay and stdin was closed.
C3_Witness ==
    \E r \in Reqs :
       /\ stdinEnded[r]
       /\ Len(stdinLog[r]) >= 2
       /\ proc[r].ytdlp = "ok"

(***************************************************************************)
(* The title probe.                                                        *)
(***************************************************************************)
ProbePhase == {"probe_text", "probe_exit"}

\* C4: the timer fires only during the probe phase, and then kills a probe
\* that has not exited and leaves an exited one alone; once the probe phase
\* is over the timer is not armed; and every request leaves the probe phase,
\* for the spawn of the downloader and the transcoder.
C4_ProbeIsTimeBounded ==
    /\ [][\A r \in Reqs :
            (timer[r] = "armed" /\ timer'[r] = "fired")
            => /\ pc[r] \in ProbePhase
               /\ proc[r].title \in Alive => proc'[r].title = "killed"
               /\ proc[r].title \notin Alive => proc'[r].title = proc[r].title]_vars
    /\ [](\A r \in Reqs : pc[r] \in {"streaming", "failed"} => timer[r] # "armed")
    /\ \A r \in Reqs : (pc[r] \in ProbePhase) ~> (pc[r] \in {"streaming", "failed"})

\* C4's case: the timer killed the probe and the request went on to stream.
C4_Witness ==
    \E r \in Reqs :
       /\ timer[r] = "fired"
       /\ proc[r].title = "signaled"
       /\ pc[r] = "streaming"
       /\ proc[r].ytdlp = "running"

\* The title probe of r failed: it could not be spawned, it was killed by the
\* timer, it exited with a failure, its stdout could not be read, or it
\* printed nothing but white space.
ProbeFailed(r) ==
    \/ pc[r] = "failed" /\ cmd[r].title = NoCmd
    \/ timer[r] = "fired" /\ proc[r].title = "signaled"
    \/ proc[r].title = "fail"
    \/ "Title fetch failed" \in log[r]
    \/ title[r] # None /\ Trim(titleBuf[r]) = <<>>

\* C5: after any failure of the title probe the title is "video", the request
\* has gone on to the spawn of the downloader, and a 500 response is never
\* the result of the probe.
C5_ProbeFailureFallsBack ==
    \A r \in Reqs :
       (pc[r] \in {"streaming", "failed"} /\ ProbeFailed(r))
       => /\ title[r] = Some(StrVideo)
          /\ resp[r].status = 500 => cmd[r].title # NoCmd

(***************************************************************************)
(* Validation and setup errors.                                            *)
(***************************************************************************)
\* For each url a client sends, whether some platform pattern matches it.
MatchTable ==
    [url \in {u[1] : u \in UrlParams \ {None}} |->
        \E i \in 1..Len(SUPPORTED_PLATFORMS) : Test(SUPPORTED_PLATFORMS[i].pattern, url)]

MatchesSome(url) == MatchTable[url]

\* The url parameter of r is absent or empty.
UrlMissing(r) == UrlOf(r) = None \/ UrlOf(r)[1] = <<>>

\* The url parameter of r is absent, empty, or matches no pattern.
UrlInvalid(r) == UrlMissing(r) \/ ~MatchesSome(UrlOf(r)[1])

\* streamVideo has run for r.
Answered(r) ==
    /\ req[r] # None
    /\ PathOf(r) \in {"/api/download", "/twitter/stream"}
    /\ pc[r] # "new"

\* C6: a request whose url is absent, empty or matches no pattern is answered
\* with a 400 JSON response holding an error key and no process is spawned
\* for it; a process is spawned only with a URL that matches a pattern.
C6_InvalidUrlRejectedWithoutSpawn ==
    \A r \in Reqs :
       /\ (Answered(r) /\ UrlInvalid(r))
          => /\ resp[r].status = 400
             /\ resp[r].headers["Content-Type"] = "application/json"
             /\ "error" \in DOMAIN resp[r].body
       /\ (req[r] = None \/ UrlInvalid(r))
          => \A c \in Children : proc[r][c] = "none" /\ cmd[r][c] = NoCmd
       /\ \A c \in {"title", "ytdlp"} : cmd[r][c] # NoCmd => MatchesSome(cmd[r][c].url)

\* C6's case: a URL of no platform was rejected.
C6_Witness ==
    \E r \in Reqs :
       /\ Answered(r)
       /\ ~UrlMissing(r)
       /\ UrlInvalid(r)
       /\ resp[r].status = 400

\* The names of the platforms, in the order of the list.
NamesInOrder ==
    <<NameTwitter, NameInstagram, NameYouTube, NameReddit, NameTikTok, NameFacebook,
      NameVimeo, NameTwitch, NamePinterest, NameDailymotion>>

\* C7: every rejection at validation, for a missing as for an unsupported
\* url, carries the names of all platforms in list order.
C7_RejectionListsPlatforms ==
    \A r \in Reqs :
       pc[r] = "rejected"
       => /\ "supported" \in DOMAIN resp[r].body
          /\ resp[r].body.supported = NamesInOrder

\* The setup of the validated request r is over.
SetupOver(r) ==
    /\ Answered(r)
    /\ ~UrlInvalid(r)
    /\ pc[r] \notin ProbePhase

\* C8: every validated request whose setup is over has a response; when a
\* spawn threw (a child was not spawned) the response is a 500 with a JSON
\* body holding error and message, never a 200.
C8_SetupErrorIs500 ==
    \A r \in Reqs :
       SetupOver(r)
       => /\ resp[r].status \in {200, 500}
          /\ (\E c \in Children : cmd[r][c] = NoCmd)
             => /\ resp[r].status = 500
                /\ resp[r].headers["Content-Type"] = "application/json"
                /\ DOMAIN resp[r].body = {"error", "message"}

\* C8's case: the spawn of the transcoder threw after the downloader's.
C8_Witness ==
    \E r \in Reqs :
       /\ SetupOver(r)
       /\ cmd[r].ytdlp # NoCmd
       /\ cmd[r].ffmpeg = NoCmd
       /\ resp[r].status = 500

(***************************************************************************)
(* The stderr drain.                                                       *)
(***************************************************************************)
\* C9: the transcoder is never blocked on a full stderr pipe that the drain
\* task is not reading: the drain of the transcoder's stderr does not wait
\* for the downloader's stderr to end.
C9_TranscoderStderrAlwaysDrained ==
    \A r \in Reqs : proc[r].ffmpeg = "blocked" => drain[r] = "ffmpeg"

(***************************************************************************)
(* Isolation of concurrent requests.                                       *)
(***************************************************************************)
\* All that the model holds for request r.
ReqState(r) ==
    <<pc[r], resp[r], aborted[r], listener[r], timer[r], proc[r], cmd[r], titleBuf[r],
      title[r], chunksLeft[r], outBuf[r], readLog[r], stdinLog[r], stdinEnded[r],
      relay[r], drain[r], errLeft[r], errBuf[r], errGot[r], log[r]>>

\* C10: every step (an abort, a timeout, a relay failure, a setup error, or
\* any other) changes what belongs to one request at most: the processes, the
\* stdin and the response of the other request are left as they are.
C10_RequestsIsolated ==
    [][\E r \in Reqs : \A q \in Reqs \ {r} : ReqState(q)' = ReqState(q)]_vars

\* C10's case: one request was aborted and its processes were killed while
\* the processes of the other request run on.
C10_Witness ==
    \E r, q \in Reqs :
       /\ r # q
       /\ AbortedMidDownload(r)
       /\ \A c \in Pipeline : proc[r][c] = "signaled"
       /\ pc[q] = "streaming"
       /\ ~aborted[q]
       /\ \A c \in Pipeline : proc[q][c] = "running"

(***************************************************************************)
(* Cross-origin access.                                                    *)
(***************************************************************************)
\* C11: every response whose Content-Type is application/json (the platform
\* list, the health payload, the 400 and 500 bodies of the download routes)
\* carries the header Access-Control-Allow-Origin.
C11_JsonResponsesAllowCrossOrigin ==
    \A r \in Reqs :
       (resp[r] # NoResp /\ resp[r].headers["Content-Type"] = "application/json")
       => "Access-Control-Allow-Origin" \in DOMAIN resp[r].headers

(***************************************************************************)
(* The functions of downloader.ts.                                         *)
(***************************************************************************)
\* The platforms, by index, whose pattern matches url.
Matching(url) ==
    {i \in 1..Len(SUPPORTED_PLATFORMS) : Test(SUPPORTED_PLATFORMS[i].pattern, url)}

\* The least element of a non-empty set of numbers.
Least(S) == CHOOSE i \in S : \A j \in S : i <= j

\* C12: isValidUrl returns valid = false, and nothing else, exactly when no
\* pattern matches the url; otherwise it returns valid = true with the name and
\* the icon of the earliest platform of the list whose pattern matches.
C12_FirstMatchingPlatformWins ==
    (call.fn = "isValidUrl" /\ call.ret # <<>>)
    => LET M == Matching(call.arg)
       IN  IF M = {}
           THEN call.ret[1] = [valid |-> FALSE]
           ELSE call.ret[1] = [valid |-> TRUE,
                               platform |-> SUPPORTED_PLATFORMS[Least(M)].name,
                               icon |-> SUPPORTED_PLATFORMS[Least(M)].icon]

\* C12's case: a url of the last platform of the list was classified, the
\* loop having passed the nine platforms before it.
C12_Witness ==
    /\ call.fn = "isValidUrl"
    /\ call.arg = UrlDailymotion
    /\ call.ret # <<>>
    /\ call.ret[1].valid
    /\ call.ret[1].platform = NameDailymotion

\* The quality tiers other than best.
Tiers == {"audio", "720", "1080", "4k", "2160"}

\* C13: for every quality (absent, empty and unrecognized included) and every
\* platform (undefined included) getYtDlpFormat returns a non-empty
\* expression; a quality that is no tier gets the expression of "best" for
\* the same platform, and 4k and 2160 get the same expression.
C13_FormatIsTotal ==
    (call.fn = "getYtDlpFormat" /\ call.ret # <<>>)
    => LET quality == IF call.arg.quality = None THEN "best" ELSE call.arg.quality[1]
           platform == call.arg.platform
       IN  /\ call.ret[1] # ""
           /\ quality \notin Tiers => call.ret[1] = getYtDlpFormat("best", platform)
           /\ quality \in {"4k", "2160"}
              => /\ call.ret[1] = getYtDlpFormat("4k", platform)
                 /\ call.ret[1] = getYtDlpFormat("2160", platform)
                 /\ call.ret[1] # getYtDlpFormat("best", platform)

\* C13's case: an unrecognized quality and no platform got the generic
\* expression of best.
C13_Witness ==
    /\ call.fn = "getYtDlpFormat"
    /\ call.arg = [quality |-> Some("hd"), platform |-> None]
    /\ call.ret = <<"bv*+ba/b">>

\* C14: sanitizeFilename returns a non-empty string for every title, the
\* empty one and those made of removed characters included.
C14_SanitizedNameIsNotEmpty ==
    (call.fn = "sanitizeFilename" /\ call.ret # <<>>) => call.ret[1] # <<>>

\* C15: what sanitizeFilename returns has at most 100 code units, none of them
\* forbidden, white space or non-ASCII, and sanitizeFilename returns it
\* unchanged when applied to it.
C15_SanitizeIsIdempotent ==
    call.fn = "sanitizeFilename"
    => /\ Len(call.ret) >= 1
          => /\ Len(call.ret[1]) <= 100
             /\ \A i \in 1..Len(call.ret[1]) :
                  /\ call.ret[1][i] \notin {47, 92, 58, 42, 63, 34, 60, 62, 124}
                  /\ call.ret[1][i] \notin WhiteSpace
                  /\ call.ret[1][i] < 128
       /\ Len(call.ret) = 2 => call.ret[2] = call.ret[1]

\* C15's case: a title over the limit, with white space and a non-ASCII code
\* unit, was sanitized twice.
C15_Witness ==
    /\ call.fn = "sanitizeFilename"
    /\ Len(call.ret) = 2
    /\ Len(call.arg) > 100
    /\ \E i, j \in 1..Len(call.arg) : call.arg[i] = 32 /\ call.arg[j] = 233
    /\ Len(call.ret[1]) = 100

(***************************************************************************)
(* Termination of the child processes, relay failure, output mode.         *)
(***************************************************************************)
\* C16: once a validated request has been answered with a setup error, no
\* downloader or transcoder spawned for it is left running: each has exited
\* or has been killed.  In particular the downloader is killed when the spawn
\* of the transcoder throws.
C16_SetupErrorLeavesNoChildRunning ==
    \A r \in Reqs : pc[r] = "failed" => \A c \in Pipeline : proc[r][c] \notin Alive

\* C17: the step in which the relay fails kills the downloader and the
\* transcoder; after a relay failure neither process is running, and the relay
\* reads, writes and closes nothing more.
C17_RelayFailureKillsBoth ==
    /\ [][\A r \in Reqs :
            (relay[r] = "running" /\ relay'[r] = "failed")
            => \A c \in Pipeline : proc'[r][c] \in {"killed"} \cup Exited]_vars
    /\ [](\A r \in Reqs :
            relay[r] = "failed" => \A c \in Pipeline : proc[r][c] \notin Alive)
    /\ [][\A r \in Reqs :
            relay[r] = "failed"
            => /\ relay'[r] = "failed"
               /\ readLog'[r] = readLog[r]
               /\ stdinLog'[r] = stdinLog[r]
               /\ stdinEnded'[r] = stdinEnded[r]]_vars

\* C17's case: the transcoder exited early, the write of a chunk to its stdin
\* threw, and the downloader was killed.
C17_Witness ==
    \E r \in Reqs :
       /\ relay[r] = "failed"
       /\ "Pipe failed" \in log[r]
       /\ ~aborted[r]
       /\ proc[r].ffmpeg = "fail"
       /\ proc[r].ytdlp = "signaled"
       /\ Len(readLog[r]) > Len(stdinLog[r])

\* The elements of a sequence.
Range(s) == {s[i] : i \in 1..Len(s)}

\* s ends with t.
EndsWith(s, t) == Len(s) >= Len(t) /\ SubSeq(s, Len(s) - Len(t) + 1, Len(s)) = t

\* C18: for every request that streams, the transcoder has the audio-only
\* arguments, the extension is m4a and the Content-Type is audio/mp4 when the
\* quality parameter is exactly "audio"; otherwise (absent, empty and
\* unrecognized values included) the transcoder has the video arguments, the
\* extension is mp4 and the Content-Type is video/mp4.
C18_OutputModeFollowsQuality ==
    \A r \in Reqs :
       pc[r] = "streaming"
       => LET audio == req[r][1].quality = Some("audio")
              args == Range(cmd[r].ffmpeg.args)
              disposition == resp[r].headers["Content-Disposition"]
          IN  IF audio
              THEN /\ {"ipod", "192k"} \subseteq args
                   /\ args \cap {"-c:v", "copy", "mp4", "-movflags"} = {}
                   /\ resp[r].headers["Content-Type"] = "audio/mp4"
                   /\ EndsWith(disposition, <<46, 109, 52, 97>>)
                   /\ Includes(disposition, <<97, 117, 100, 105, 111, 46, 109, 52, 97, 34>>)
              ELSE /\ {"-c:v", "copy", "mp4", "-movflags"} \subseteq args
                   /\ args \cap {"ipod", "192k"} = {}
                   /\ resp[r].headers["Content-Type"] = "video/mp4"
                   /\ EndsWith(disposition, <<46, 109, 112, 52>>)
                   /\ Includes(disposition, <<118, 105, 100, 101, 111, 46, 109, 112, 52, 34>>)

\* C18's case: a request for the quality audio streams.
C18_Witness ==
    \E r \in Reqs :
       /\ pc[r] = "streaming"
       /\ req[r][1].quality = Some("audio")
       /\ resp[r].headers["Content-Type"] = "audio/mp4"
       /\ cmd[r].ffmpeg.prog = "ffmpeg"

=============================================================================
